---- MODULE Spec2Model ----
(***************************************************************************)
(* Model of home_robot's numerical core:                                   *)
(*   motion/pinocchio_ik_solver.py  PinocchioIKSolver, PositionIKOptimizer,*)
(*                                  CEM                                    *)
(*   control/feedback/velocity_controllers.py  DDVelocityControlNoplan     *)
(*                                                                         *)
(* Real numbers are integers in a fixed unit.  A standard deviation is     *)
(* kept as its square, an exact rational [num, den]; a mean is an exact    *)
(* rational [num, den].                                                    *)
(***************************************************************************)
EXTENDS Integers, Sequences, FiniteSets, TLC

\* ------------------------------------------------------------------ bounds
MaxIter == 3
MaxCalls == 2

\* Values a sampled component can take when its std is not zero.
Grid == {-1, 0, 1}
\* Python's None, for a tuple not returned yet and for an absent object.
None == [none |-> TRUE]
\* An array not bound yet.
Unset == <<>>

\* ------------------------------------------------------------ arithmetic
Abs(n) == IF n < 0 THEN -n ELSE n
Min2(a, b) == IF a <= b THEN a ELSE b
Max2(a, b) == IF a >= b THEN a ELSE b

RECURSIVE GCD(_, _)
GCD(a, b) == IF b = 0 THEN a ELSE GCD(b, a % b)

\* The rational n/d (d > 0) in lowest terms.
Rat(n, d) ==
  LET g == GCD(Abs(n), d)
  IN  IF n = 0 THEN [num |-> 0, den |-> 1] ELSE [num |-> n \div g, den |-> d \div g]

RECURSIVE SumOver(_, _)
SumOver(f, S) ==
  IF S = {} THEN 0
  ELSE LET k == CHOOSE k \in S : TRUE IN f[k] + SumOver(f, S \ {k})

\* np.zeros(n)
Zeros(n) == [d \in 1..n |-> 0]

\* ------------------------------------------------- PositionIKOptimizer cost
\* The kinematic chain seen by solve_ik: compute_ik lands on a configuration
\* that depends on the trial orientation, compute_fk maps it to a pose.
PosDesired == 1
IKSolve(dr) == dr[1] + (IF Len(dr) >= 2 THEN dr[2] ELSE 0)
FKPos(q) == q
\* rot_out . quat_desired for unit quaternions, as -1, 0 or 1
RotDot(q) == IF q = 0 THEN 1 ELSE IF q = -2 THEN -1 ELSE 0

\* solve_ik(dr) of compute_ik_opt
solve_ik_bad(o, dr) ==
  LET q == IKSolve(dr)
      cost_pos == Abs(PosDesired - FKPos(q))
      cost_rot == 1 - RotDot(q) * RotDot(q)
  IN  [cost |-> o.pos_wt * cost_pos + cost_rot, aux |-> q]

solve_ik(o, dr) ==
  LET q == IKSolve(dr)
      cost_pos == Abs(PosDesired - FKPos(q))
      cost_rot == 1 - RotDot(q) * RotDot(q)
  IN  [cost |-> o.pos_wt * cost_pos + o.ori_wt * cost_rot, aux |-> q]

\* A convex quadratic cost (squared norm); its payload is the candidate.
sq_norm(x) ==
  [cost |-> SumOver([d \in DOMAIN x |-> x[d] * x[d]], DOMAIN x), aux |-> x]

\* ------------------------------------------------------------------ state
VARIABLES
  cem,             \* the CEM object: max_iterations, num_samples, num_top, cost_tol, sigma0
  opt,             \* the PositionIKOptimizer owning cem, or None
  caller,          \* who called CEM.optimize: "direct" or "compute_ik_opt"
  func, x0,        \* arguments of the running optimize call
  pc,              \* "idle", "loop", "done" (returned), "failed" (AssertionError)
  i, mu, sigma,    \* locals of optimize
  x_arr, cost_arr, aux_outputs, idx_sorted_arr,
  ret,             \* the tuple optimize returned, or None
  opt_ret,         \* the tuple compute_ik_opt returned, or None
  calls,           \* number of optimize calls made so far
  obs              \* observations of the current call and of construction

cem_vars == <<cem, opt, caller, func, x0, pc, i, mu, sigma, x_arr, cost_arr,
              aux_outputs, idx_sorted_arr, ret, opt_ret, calls, obs>>

\* PinocchioIKSolver
VARIABLES
  joint_names,        \* the controlled_joints argument of __init__
  controlled_joints,  \* self.controlled_joints
  q_neutral,          \* self.q_neutral
  map_pc,             \* "idle", "full" (a full configuration is held), "back"
  map_in, map_full, map_out,
  ik_pc,              \* "idle", "loop", "done"
  ik_i, ik_q, ik_err, ik_max,
  ik_ret              \* (q_control, success) of the last compute_ik, or None

solver_vars == <<joint_names, controlled_joints, q_neutral, map_pc, map_in,
                 map_full, map_out, ik_pc, ik_i, ik_q, ik_err, ik_max, ik_ret>>

\* DDVelocityControlNoplan
VARIABLES
  cfg,                \* self.cfg
  dd_pc,              \* "idle" or "returned"
  xyt_err,            \* the argument of the last __call__
  dd_ret              \* (v_cmd, w_cmd, done) of the last __call__, or None

dd_vars == <<cfg, dd_pc, xyt_err, dd_ret>>

vars == <<cem_vars, solver_vars, dd_vars>>

\* ------------------------------------------------------------ CEM.__init__
CEM_init(max_iterations, num_samples, num_top, tol, sigma0) ==
  [max_iterations |-> max_iterations, num_samples |-> num_samples,
   num_top |-> num_top, cost_tol |-> tol, sigma0 |-> sigma0]

\* An array of stds given as integers, kept as squares.
StdArray(s) == [d \in DOMAIN s |-> Rat(s[d] * s[d], 1)]
\* ori_error_range / 2, kept as squares.
HalfStdArray(r) == [d \in DOMAIN r |-> Rat(r[d] * r[d], 4)]

\* PositionIKOptimizer.__init__: a float range is spread over three axes;
\* cem_params gives the three CEM parameters (the class defaults 30, 100, 10
\* are used only for a key it lacks).
PositionIKOptimizer_init(pos_error_tol, ori_error_range, pos_weight, ori_weight, cem_params) ==
  LET range == IF ori_error_range.type = "float"
               THEN [d \in 1..3 |-> ori_error_range.v]
               ELSE ori_error_range.v
  IN  [pos_wt |-> pos_weight, ori_wt |-> ori_weight,
       pos_error_tol |-> pos_error_tol, ori_error_range |-> range,
       opt |-> CEM_init(cem_params.max_iterations, cem_params.num_samples,
                        cem_params.num_top, pos_error_tol, HalfStdArray(range))]

\* ------------------------------------------------------------ CEM.optimize
\* func(x): the cost function handed to optimize.
Func(f, o, x) == IF f = "solve_ik" THEN solve_ik(o, x) ELSE sq_norm(x)

\* The assert of optimize: x0.shape == self.sigma0.shape
ShapeMatches_bad(x, c) == TRUE

ShapeMatches(x, c) == Len(x) = Len(c.sigma0)

\* mu + sigma * randn: a component whose std is 0 is exactly the mean.
Candidates(m, sg) ==
  { x \in [DOMAIN m -> Grid] :
      \A d \in DOMAIN m : sg[d].num = 0 => x[d] * m[d].den = m[d].num }

\* np.argsort(cost_arr): the orders that sort the costs ascending.
Argsort(costs) ==
  { p \in [DOMAIN costs -> DOMAIN costs] :
      /\ \A a, b \in DOMAIN costs : a # b => p[a] # p[b]
      /\ \A a, b \in DOMAIN costs : a < b => costs[p[a]] <= costs[p[b]] }

\* sigma component <= cost_tol / 10, on the square of sigma
StdLeqTenth(sq, tol) == tol >= 0 /\ 100 * sq.num <= tol * tol * sq.den

\* "Check termination", with n the incremented iteration count.
TerminationCheck_strict(c, n, best, sg) ==
  \/ n > c.max_iterations
  \/ best <= c.cost_tol
  \/ \A d \in DOMAIN sg : StdLeqTenth(sg[d], c.cost_tol)

TerminationCheck_nocost(c, n, best, sg) ==
  \/ n >= c.max_iterations
  \/ \A d \in DOMAIN sg : StdLeqTenth(sg[d], c.cost_tol)

TerminationCheck(c, n, best, sg) ==
  \/ n >= c.max_iterations
  \/ best <= c.cost_tol
  \/ \A d \in DOMAIN sg : StdLeqTenth(sg[d], c.cost_tol)

\* The elite rows x_arr[idx_sorted_arr[:num_top], :]
Elite(c, order) == { order[k] : k \in 1..Min2(c.num_top, c.num_samples) }

\* np.mean(elite, axis=0)
EliteMean(xs, E) ==
  [d \in DOMAIN xs[1] |-> Rat(SumOver([j \in E |-> xs[j][d]], E), Cardinality(E))]

\* np.std(elite, axis=0) squared: (K * sum x^2 - (sum x)^2) / K^2
EliteStd(xs, E) ==
  [d \in DOMAIN xs[1] |->
     LET K == Cardinality(E)
         s1 == SumOver([j \in E |-> xs[j][d]], E)
         s2 == SumOver([j \in E |-> xs[j][d] * xs[j][d]], E)
     IN  Rat(K * s2 - s1 * s1, K * K)]

\* return cost_arr[i_best], aux_outputs[i_best], i, sigma
Return_first(costs, aux, i_best, n, sg) ==
  [cost |-> costs[1], aux |-> aux[1], i |-> n, sigma |-> sg]

Return(costs, aux, i_best, n, sg) ==
  [cost |-> costs[i_best], aux |-> aux[i_best], i |-> n, sigma |-> sg]

\* "Update distribution": mu and sigma are rebound to new arrays; the arrays
\* they named before (x0, self.sigma0) are left as they were.
UpdateDistribution_inplace(xs, E) ==
  /\ mu' = EliteMean(xs, E)
  /\ sigma' = EliteStd(xs, E)
  /\ x0' = [d \in DOMAIN x0 |-> EliteMean(xs, E)[d].num \div EliteMean(xs, E)[d].den]
  /\ cem' = [cem EXCEPT !.sigma0 = EliteStd(xs, E)]

UpdateDistribution(xs, E) ==
  /\ mu' = EliteMean(xs, E)
  /\ sigma' = EliteStd(xs, E)
  /\ UNCHANGED <<x0, cem>>

\* The observations a fresh call starts with.
NewObs(o, x) == [o EXCEPT !.sampled = 0, !.evals = 0, !.bests = <<>>,
                          !.drawn = Unset, !.x0_arg = x]

\* optimize up to the loop: the assert, then i = 0, mu = x0, sigma = self.sigma0.
Begin(who, f, x) ==
  /\ calls < MaxCalls
  /\ calls' = calls + 1
  /\ caller' = who
  /\ func' = f
  /\ x0' = x
  /\ obs' = NewObs(obs, x)
  /\ ret' = None
  /\ opt_ret' = None
  /\ x_arr' = <<>> /\ cost_arr' = <<>> /\ aux_outputs' = <<>> /\ idx_sorted_arr' = <<>>
  /\ i' = 0
  /\ IF ShapeMatches(x, cem)
     THEN /\ pc' = "loop"
          /\ mu' = [d \in DOMAIN x |-> Rat(x[d], 1)]
          /\ sigma' = cem.sigma0
     ELSE /\ pc' = "failed"
          /\ mu' = Unset
          /\ sigma' = Unset
  /\ UNCHANGED <<cem, opt, solver_vars, dd_vars>>

\* A caller of CEM.optimize with a squared-norm cost.
X0Set == {<<0>>, <<1>>, <<1, 0>>, <<1, 1>>}

Optimize ==
  /\ opt = None
  /\ pc \in {"idle", "done", "failed"}
  /\ \E x \in X0Set : Begin("direct", "sq_norm", x)

\* PositionIKOptimizer.compute_ik_opt up to the loop of optimize.
ComputeIkOpt ==
  /\ opt # None
  /\ pc \in {"idle", "failed"} \/ (pc = "done" /\ opt_ret # None)
  /\ Begin("compute_ik_opt", "solve_ik", Zeros(3))

\* One pass of the loop of optimize: sample, evaluate, sort, check termination,
\* then either return or update the distribution.
Round ==
  /\ pc = "loop"
  /\ \E xs \in [1..cem.num_samples -> Candidates(mu, sigma)] :
       LET outs  == [j \in 1..cem.num_samples |-> Func(func, opt, xs[j])]
           costs == [j \in 1..cem.num_samples |-> outs[j].cost]
           aux   == [j \in 1..cem.num_samples |-> outs[j].aux]
       IN  \E order \in Argsort(costs) :
             LET i_best == order[1]
                 n == i + 1
             IN  /\ x_arr' = xs
                 /\ cost_arr' = costs
                 /\ aux_outputs' = aux
                 /\ idx_sorted_arr' = order
                 /\ i' = n
                 /\ obs' = [obs EXCEPT !.sampled = @ + cem.num_samples,
                                       !.evals = @ + cem.num_samples,
                                       !.bests = Append(@, costs[i_best]),
                                       !.drawn = sigma,
                                       !.updated = @ \/ ~TerminationCheck(cem, n, costs[i_best], sigma)]
                 /\ IF TerminationCheck(cem, n, costs[i_best], sigma)
                    THEN /\ pc' = "done"
                         /\ ret' = Return(costs, aux, i_best, n, sigma)
                         /\ UNCHANGED <<mu, sigma, x0, cem>>
                    ELSE /\ pc' = "loop"
                         /\ ret' = ret
                         /\ UpdateDistribution(xs, Elite(cem, order))
  /\ UNCHANGED <<opt, caller, func, opt_ret, calls, solver_vars, dd_vars>>

\* compute_ik_opt after optimize returned: compute_fk(q_result) for the
\* report, then return q_result, cost_opt, max_iter, opt_sigma.
ComputeIkOptReturn ==
  /\ pc = "done" /\ caller = "compute_ik_opt" /\ opt_ret = None
  /\ opt_ret' = [q_result |-> ret.aux, cost_opt |-> ret.cost, max_iter |-> ret.i,
                 opt_sigma |-> ret.sigma, pos_out |-> FKPos(ret.aux)]
  /\ UNCHANGED <<cem, opt, caller, func, x0, pc, i, mu, sigma, x_arr, cost_arr,
                 aux_outputs, idx_sorted_arr, ret, calls, obs, solver_vars, dd_vars>>

\* ------------------------------------------------------- construction (CEM)
NumSamplesSet == {2, 3}
NumTopSet == {1, 2}
TolSet == {-1, 0, 1}
Sigma0Set == {<<0>>, <<1>>, <<0, 2>>}
OriRangeSet == {[type |-> "float", v |-> 0], [type |-> "array", v |-> <<2, 0, 0>>],
                [type |-> "array", v |-> <<2, 2, 0>>], [type |-> "array", v |-> <<2, 2>>]}

CEMInit ==
  /\ \/ /\ opt = None
        /\ \E m \in 0..MaxIter, ns \in NumSamplesSet, nt \in NumTopSet,
              tol \in TolSet, s \in Sigma0Set :
             cem = CEM_init(m, ns, nt, tol, StdArray(s))
     \/ /\ \E ptol \in {0, 1}, r \in OriRangeSet, pw \in {1, 2}, ow \in {0, 1},
              m \in {1, 2}, nt \in NumTopSet :
             opt = PositionIKOptimizer_init(ptol, r, pw, ow,
                     [max_iterations |-> m, num_samples |-> 2, num_top |-> nt])
        /\ cem = opt.opt
  /\ caller = "" /\ func = "" /\ x0 = Unset
  /\ pc = "idle"
  /\ i = 0 /\ mu = Unset /\ sigma = Unset
  /\ x_arr = <<>> /\ cost_arr = <<>> /\ aux_outputs = <<>> /\ idx_sorted_arr = <<>>
  /\ ret = None /\ opt_ret = None
  /\ calls = 0
  /\ obs = [sampled |-> 0, evals |-> 0, bests |-> <<>>, drawn |-> Unset,
            updated |-> FALSE, x0_arg |-> Unset, ctor |-> cem]

CEMNext == Optimize \/ ComputeIkOpt \/ Round \/ ComputeIkOptReturn


\* ------------------------------------------------------------ claims (CEM)
MinCost(costs) == CHOOSE c \in {costs[j] : j \in DOMAIN costs} :
                    \A j \in DOMAIN costs : c <= costs[j]

\* C3: an optimize call whose x0 has another shape than the configured sigma0
\* has failed with nothing sampled, the cost function never evaluated and no
\* tuple returned.
C3_ShapeMismatchFailsFirst ==
  (calls > 0 /\ Len(x0) # Len(obs.ctor.sigma0)) =>
     /\ pc = "failed"
     /\ obs.sampled = 0 /\ obs.evals = 0
     /\ ret = None /\ opt_ret = None
     /\ x_arr = <<>> /\ cost_arr = <<>>

C3_Witness ==
  pc = "failed" /\ Len(x0) = 3 /\ Len(cem.sigma0) = 2

\* C4: after every round, optimize has returned exactly when the round count
\* is >= max_iterations, or the round's best cost is <= cost_tol, or every
\* component of the std the round was drawn from is <= cost_tol / 10; while it
\* runs the next round can always be taken and the count is below
\* max(1, max_iterations), and the returned count i has 1 <= i <= that cap.
C4_StopsExactlyOnCriteria ==
  /\ (pc \in {"loop", "done"} /\ i >= 1) =>
       ((pc = "done") <=>
          \/ i >= cem.max_iterations
          \/ MinCost(cost_arr) <= cem.cost_tol
          \/ \A d \in DOMAIN obs.drawn : StdLeqTenth(obs.drawn[d], cem.cost_tol))
  /\ pc = "loop" => (i < Max2(1, cem.max_iterations) /\ ENABLED Round)
  /\ pc = "done" => (ret.i = i /\ 1 <= ret.i /\ ret.i <= Max2(1, cem.max_iterations))

C4_Witness ==
  /\ pc = "done" /\ ret.i = 2 /\ cem.max_iterations = 3
  /\ MinCost(cost_arr) > cem.cost_tol
  /\ \A d \in DOMAIN obs.drawn : StdLeqTenth(obs.drawn[d], cem.cost_tol)

\* C6 as stated: on the squared-norm cost the best cost of a round is never
\* greater than the best cost of the round before (taken on the optimizers
\* whose tolerance is not negative).
C6_BestCostNonIncreasing ==
  (func = "sq_norm" /\ cem.cost_tol >= 0) =>
    \A k \in 1..(Len(obs.bests) - 1) : obs.bests[k + 1] <= obs.bests[k]

\* C6 amended: on the squared-norm cost, a returned cost that is <= cost_tol is
\* strictly below the best cost of every earlier round of the call.
C6_ReturnedWithinTolBelowEarlier ==
  (pc = "done" /\ func = "sq_norm" /\ ret.cost <= cem.cost_tol) =>
    \A k \in 1..(Len(obs.bests) - 1) : ret.cost < obs.bests[k]

C6_Witness ==
  /\ pc = "done" /\ func = "sq_norm" /\ ret.cost <= cem.cost_tol
  /\ Len(obs.bests) = 3 /\ obs.bests[2] >= obs.bests[1]

\* C7: optimize never changes the optimizer's parameters nor the caller's x0,
\* and every call, also one after a call that refitted the distribution,
\* enters its loop with mean x0, std sigma0 and iteration count 0.
C7_NoStateAcrossCalls ==
  /\ cem = obs.ctor
  /\ calls > 0 => x0 = obs.x0_arg
  /\ (pc = "loop" /\ obs.sampled = 0) =>
       /\ i = 0
       /\ mu = [d \in DOMAIN obs.x0_arg |-> Rat(obs.x0_arg[d], 1)]
       /\ sigma = obs.ctor.sigma0

C7_Witness ==
  calls = 2 /\ pc = "loop" /\ obs.sampled = 0 /\ obs.updated

\* C8: with orientation weight 0 the cost compute_ik_opt reports is pos_weight
\* times the position error of the configuration it returns.
C8_ZeroOriWeightCostIsPositionError ==
  (caller = "compute_ik_opt" /\ opt_ret # None /\ opt.ori_wt = 0) =>
    opt_ret.cost_opt = opt.pos_wt * Abs(PosDesired - FKPos(opt_ret.q_result))

C8_Witness ==
  /\ caller = "compute_ik_opt" /\ opt_ret # None /\ opt.ori_wt = 0
  /\ RotDot(opt_ret.q_result) = 0 /\ opt_ret.cost_opt > 0 /\ opt_ret.max_iter >= 2

\* C9: the returned cost and payload are those of one candidate of the final
\* round, a candidate of minimum cost in that round, and the returned sigma is
\* the std the final round was drawn from (sigma0 after a single round).
C9_ReturnsFinalRoundBest ==
  pc = "done" =>
    /\ \E j \in DOMAIN cost_arr :
         /\ ret.cost = cost_arr[j] /\ ret.aux = aux_outputs[j]
         /\ aux_outputs[j] = Func(func, opt, x_arr[j]).aux
         /\ cost_arr[j] = Func(func, opt, x_arr[j]).cost
         /\ \A k \in DOMAIN cost_arr : cost_arr[j] <= cost_arr[k]
    /\ ret.sigma = obs.drawn
    /\ i = 1 => ret.sigma = cem.sigma0

C9_Witness ==
  /\ pc = "done" /\ i >= 2
  /\ obs.bests[1] < ret.cost
  /\ ret.sigma # EliteStd(x_arr, Elite(cem, idx_sorted_arr))
  /\ cost_arr[1] # ret.cost

\* ================================================================ solver
\* PinocchioIKSolver over a kinematic model with NQ configuration entries,
\* one per joint: model.idx_qs[model.getJointId("j<k>")] = k.  Arrays of the
\* solver are functions on 0..n-1, indexed as Python indexes them.
NQ == 3
MaxJoints == 2
MaxIkIter == 2
\* Error norms are in units of 1e-5.
EPS == 10

JointNames == {"j0", "j1", "j2"}
IdxQs(j) == CASE j = "j0" -> 0 [] j = "j1" -> 1 [] j = "j2" -> 2
QVals == {1, 2}
\* What np.empty may hold where nothing was stored.
Uninitialized == {1, 7}
ErrNorms == {0, 9, 10, 11}


\* A Python list or array with the elements of the sequence s.
PyList(s) == [k \in 0..(Len(s) - 1) |-> s[k + 1]]
PyLen(a) == Cardinality(DOMAIN a)
\* a[k] with Python's negative indexes
PyIndex(a, k) == IF k < 0 THEN k + PyLen(a) ELSE k

\* __init__: [idx_qs[getJointId(j)] if j != "ignore" else -1 for j in controlled_joints]
ControlledJoints_dropped(names) ==
  PyList(SelectSeq([k \in 1..Len(names) |->
                      IF names[k] # "ignore" THEN IdxQs(names[k]) ELSE -1],
                   LAMBDA v : v >= 0))

ControlledJoints(names) ==
  PyList([k \in 1..Len(names) |-> IF names[k] # "ignore" THEN IdxQs(names[k]) ELSE -1])

\* get_dof
get_dof == PyLen(controlled_joints)

\* q_out after the assignments q_out[joint_idx] = q_input[i] for i = n, n+1, ...
RECURSIVE Assign(_, _, _, _)
Assign(q_out, cj, q_input, n) ==
  IF n >= PyLen(cj) THEN q_out
  ELSE Assign([q_out EXCEPT ![PyIndex(q_out, cj[n])] = q_input[n]], cj, q_input, n + 1)

\* _qmap_control2model
qmap_control2model(q_input) == Assign(q_neutral, controlled_joints, q_input, 0)

\* _qmap_model2control: the arrays it can return; an entry of np.empty that
\* the loop does not store to keeps whatever the memory held.
qmap_model2control(q_input) ==
  { [n \in DOMAIN controlled_joints |->
       IF controlled_joints[n] >= 0 THEN q_input[controlled_joints[n]] ELSE empty[n]] :
    empty \in [DOMAIN controlled_joints -> Uninitialized] }

\* --- the mapper, called on its own; what an earlier call left is dropped
QmapControl2Model ==
  /\ map_pc \in {"idle", "back"}
  /\ ik_pc \in {"idle", "done"}
  /\ \E q \in [DOMAIN controlled_joints -> QVals] :
       /\ map_in' = q
       /\ map_full' = qmap_control2model(q)
  /\ map_out' = <<>>
  /\ map_pc' = "full"
  /\ ik_pc' = "idle" /\ ik_i' = 0 /\ ik_q' = <<>> /\ ik_err' = -1 /\ ik_max' = 0
  /\ ik_ret' = None
  /\ UNCHANGED <<joint_names, controlled_joints, q_neutral, cem_vars, dd_vars>>

QmapModel2Control ==
  /\ map_pc = "full"
  /\ map_out' \in qmap_model2control(map_full)
  /\ map_pc' = "back"
  /\ UNCHANGED <<joint_names, controlled_joints, q_neutral, map_in, map_full,
                 ik_pc, ik_i, ik_q, ik_err, ik_max, ik_ret, cem_vars, dd_vars>>

\* --- compute_ik
\* The two tests of one pass of the loop, on the error norm at q.
PassOutcome_capfirst(err, n, max_iterations) ==
  IF n >= max_iterations THEN "failure"
  ELSE IF err < EPS THEN "success"
  ELSE "step"

PassOutcome(err, n, max_iterations) ==
  IF err < EPS THEN "success"
  ELSE IF n >= max_iterations THEN "failure"
  ELSE "step"

\* compute_ik up to the loop: i = 0 and q seeded from q_init or neutral.
ComputeIk ==
  /\ ik_pc \in {"idle", "done"}
  /\ map_pc \in {"idle", "back"}
  /\ map_pc' = "idle" /\ map_in' = <<>> /\ map_full' = <<>> /\ map_out' = <<>>
  /\ \E m \in -1..MaxIkIter : ik_max' = m
  /\ \/ ik_q' = q_neutral
     \/ \E q_init \in [DOMAIN controlled_joints -> QVals] :
          ik_q' = qmap_control2model(q_init)
  /\ ik_i' = 0
  /\ ik_err' = -1
  /\ ik_ret' = None
  /\ ik_pc' = "loop"
  /\ UNCHANGED <<joint_names, controlled_joints, q_neutral, cem_vars, dd_vars>>

\* pinocchio.integrate(model, q, v * DT): the configurations a step can reach.
Integrate(q) == { [k \in DOMAIN q |-> q[k] + dq] : dq \in {0, 1} }

\* One pass of the loop: the error norm at q, the two tests, then a step; on
\* leaving the loop, q_control = _qmap_model2control(q) is returned.
IkPass ==
  /\ ik_pc = "loop"
  /\ \E err \in ErrNorms :
       /\ ik_err' = err
       /\ LET out == PassOutcome(err, ik_i, ik_max)
          IN  IF out = "step"
              THEN /\ ik_q' \in Integrate(ik_q)
                   /\ ik_i' = ik_i + 1
                   /\ UNCHANGED <<ik_pc, ik_ret>>
              ELSE /\ \E q_control \in qmap_model2control(ik_q) :
                        ik_ret' = [q_control |-> q_control, success |-> (out = "success")]
                   /\ ik_pc' = "done"
                   /\ UNCHANGED <<ik_q, ik_i>>
  /\ UNCHANGED <<joint_names, controlled_joints, q_neutral, map_pc, map_in,
                 map_full, map_out, ik_max, cem_vars, dd_vars>>

\* The lists of controlled joints: distinct joints, any number of "ignore".
JointLists ==
  { s \in UNION { [1..n -> JointNames \cup {"ignore"}] : n \in 1..MaxJoints } :
      \A a, b \in DOMAIN s : (a # b /\ s[a] # "ignore") => s[a] # s[b] }

SolverInit ==
  /\ joint_names \in JointLists
  /\ controlled_joints = ControlledJoints(joint_names)
  /\ q_neutral = [k \in 0..(NQ - 1) |-> 0]
  /\ map_pc = "idle" /\ map_in = <<>> /\ map_full = <<>> /\ map_out = <<>>
  /\ ik_pc = "idle" /\ ik_i = 0 /\ ik_q = <<>> /\ ik_err = -1 /\ ik_max = 0
  /\ ik_ret = None

SolverNext == QmapControl2Model \/ QmapModel2Control \/ ComputeIk \/ IkPass

\* ============================================================ controller
\* DDVelocityControlNoplan.  Lengths, angles (radians), speeds and
\* accelerations are integers.  The pose error xyt_err is given by the length
\* and direction of its xy part and its yaw:
\*   xyt_err = (lin * cos(heading), lin * sin(heading), ang).
\* A real result is [kind |-> "sqrt", a, b] for a * sqrt(b), a in {-1, 1},
\* or [kind |-> "rat", a, b] for a / b.
MaxLin == 2
MaxAng == 2


Zero == [kind |-> "rat", a |-> 0, b |-> 1]
IsZero(v) == v.a = 0
Sign(x) == IF x > 0 THEN 1 ELSE IF x < 0 THEN -1 ELSE 0

\* np.linalg.norm(xyt_err[0:2])
Norm(e) == e.lin
\* np.arctan2(xyt_err[1], xyt_err[0]); arctan2(0, 0) is 0
Arctan2(e) == IF e.lin = 0 THEN 0 ELSE e.heading

\* _velocity_feedback_control: sign(x_err) * min(a * sqrt(2 |x_err| / a), v_max)
velocity_feedback_control(x_err, a, v_max) ==
  IF x_err = 0 THEN Zero
  ELSE [kind |-> "sqrt", a |-> Sign(x_err), b |-> Min2(2 * a * Abs(x_err), v_max * v_max)]

\* sin(phi) + phi * cos(phi) + 1e-5 for phi = 0, 1, 2, 3 rad, as a rational
TurnDenom(phi) ==
  CASE phi = 0 -> [a |-> 1, b |-> 100000]
    [] phi = 1 -> [a |-> 1382, b |-> 1000]
    [] phi = 2 -> [a |-> 77, b |-> 1000]
    [] phi = 3 -> [a |-> -2829, b |-> 1000]

\* _turn_rate_limit, with w_max the rational w.a / w.b
turn_rate_limit(c, lin_err, heading_diff, w) ==
  IF heading_diff > c.max_heading_ang THEN Zero
  ELSE LET t == TurnDenom(heading_diff)
           n == w.a * lin_err * t.b * Sign(t.a)
           d == w.b * Abs(t.a)
           r == Rat(n, d)
       IN  [kind |-> "rat", a |-> r.num, b |-> r.den]

\* sqrt(sq) <= the rational r
SqrtLeq(sq, r) ==
  /\ r.a >= 0
  /\ \/ r.a >= r.b * (sq + 1)
     \/ sq * r.b * r.b <= r.a * r.a

\* np.clip(v_raw, 0.0, v_limit) for v_raw >= 0
Clip(v_raw, v_limit) ==
  IF SqrtLeq(v_raw.b, v_limit) THEN v_raw ELSE v_limit

\* __call__
DDCall_if(c, e) ==
  LET lin_err_abs == Norm(e)
      ang_err == e.ang
      heading_err == Arctan2(e)
      heading_err_abs == Abs(heading_err)
      far == lin_err_abs > c.lin_error_tol
      turn == Abs(ang_err) > c.ang_error_tol
      v_raw == velocity_feedback_control(lin_err_abs, c.acc_lin, c.v_max)
      v_limit == turn_rate_limit(c, lin_err_abs, heading_err_abs,
                                 [a |-> c.w_max, b |-> 2])
  IN  [v_cmd |-> IF far THEN Clip(v_raw, v_limit) ELSE Zero,
       w_cmd |-> IF turn THEN velocity_feedback_control(ang_err, c.acc_ang, c.w_max)
                 ELSE IF far THEN velocity_feedback_control(heading_err, c.acc_ang, c.w_max)
                 ELSE Zero,
       done |-> ~far /\ ~turn]

DDCall(c, e) ==
  LET lin_err_abs == Norm(e)
      ang_err == e.ang
      heading_err == Arctan2(e)
      heading_err_abs == Abs(heading_err)
      v_raw == velocity_feedback_control(lin_err_abs, c.acc_lin, c.v_max)
      v_limit == turn_rate_limit(c, lin_err_abs, heading_err_abs,
                                 [a |-> c.w_max, b |-> 2])
  IN  IF lin_err_abs > c.lin_error_tol
      THEN [v_cmd |-> Clip(v_raw, v_limit),
            w_cmd |-> velocity_feedback_control(heading_err, c.acc_ang, c.w_max),
            done |-> FALSE]
      ELSE IF Abs(ang_err) > c.ang_error_tol
      THEN [v_cmd |-> Zero,
            w_cmd |-> velocity_feedback_control(ang_err, c.acc_ang, c.w_max),
            done |-> FALSE]
      ELSE [v_cmd |-> Zero, w_cmd |-> Zero, done |-> TRUE]

XytErrs == [lin : 0..MaxLin, heading : -3..3, ang : -MaxAng..MaxAng]

Call ==
  /\ \E e \in XytErrs :
       /\ xyt_err' = e
       /\ dd_ret' = DDCall(cfg, e)
  /\ dd_pc' = "returned"
  /\ UNCHANGED <<cfg, cem_vars, solver_vars>>

Cfgs == [lin_error_tol : {0, 1}, ang_error_tol : {0, 1}, acc_lin : {1}, acc_ang : {1, 2},
         v_max : {1, 2}, w_max : {1, 2}, max_heading_ang : {1, 3}]

DDInit ==
  /\ cfg \in Cfgs
  /\ dd_pc = "idle"
  /\ xyt_err = [lin |-> 0, heading |-> 0, ang |-> 0]
  /\ dd_ret = None

DDNext == Call

\* ======================================================== specifications

\* The state of a component no call has been made on.
CEMIdle ==
  /\ cem = None /\ opt = None /\ caller = "" /\ func = "" /\ x0 = Unset
  /\ pc = "idle" /\ i = 0 /\ mu = Unset /\ sigma = Unset
  /\ x_arr = <<>> /\ cost_arr = <<>> /\ aux_outputs = <<>> /\ idx_sorted_arr = <<>>
  /\ ret = None /\ opt_ret = None /\ calls = 0 /\ obs = None

SolverIdle ==
  /\ joint_names = <<>> /\ controlled_joints = <<>> /\ q_neutral = <<>>
  /\ map_pc = "idle" /\ map_in = <<>> /\ map_full = <<>> /\ map_out = <<>>
  /\ ik_pc = "idle" /\ ik_i = 0 /\ ik_q = <<>> /\ ik_err = -1 /\ ik_max = 0
  /\ ik_ret = None

DDIdle ==
  /\ cfg = None /\ dd_pc = "idle"
  /\ xyt_err = [lin |-> 0, heading |-> 0, ang |-> 0] /\ dd_ret = None

\* CEM and PositionIKOptimizer
InitCEM == CEMInit /\ SolverIdle /\ DDIdle
SpecCEM == InitCEM /\ [][CEMNext]_vars

\* PinocchioIKSolver
InitSolver == SolverInit /\ CEMIdle /\ DDIdle
SpecSolver == InitSolver /\ [][SolverNext]_vars

\* DDVelocityControlNoplan
InitDD == DDInit /\ CEMIdle /\ SolverIdle
SpecDD == InitDD /\ [][DDNext]_vars

\* --------------------------------------------------------- claims (solver)
Ignored == { k \in DOMAIN joint_names : joint_names[k] = "ignore" }

\* C1 as stated: mapping a reduced configuration to a full one and back gives
\* the reduced configuration again, element for element.
C1_RoundTrip ==
  map_pc = "back" => map_out = map_in

C5_SuccessIffConverged ==
  /\ ik_pc = "done" =>
       /\ ik_ret.success <=> ik_err < EPS
       /\ ~ik_ret.success <=> (ik_err >= EPS /\ ik_i = Max2(0, ik_max))
  /\ ik_pc \in {"loop", "done"} => ik_i <= Max2(0, ik_max)

C5_Witness ==
  ik_pc = "done" /\ ik_ret.success /\ ik_max >= 1 /\ ik_i = ik_max

\* ----------------------------------------------------- claims (controller)
\* C10: done is returned exactly when the linear error is within
\* lin_error_tol and the yaw error within ang_error_tol, and then both
\* commands are 0; beyond lin_error_tol the angular command is the feedback
\* on the heading error whatever the yaw error is; within lin_error_tol the
\* linear command is 0.
C10_DoneAndCommands ==
  dd_pc = "returned" =>
    LET far == Norm(xyt_err) > cfg.lin_error_tol
        turned == Abs(xyt_err.ang) <= cfg.ang_error_tol
    IN  /\ dd_ret.done <=> (~far /\ turned)
        /\ dd_ret.done => (IsZero(dd_ret.v_cmd) /\ IsZero(dd_ret.w_cmd))
        /\ far => /\ dd_ret.w_cmd =
                       velocity_feedback_control(Arctan2(xyt_err), cfg.acc_ang, cfg.w_max)
                  /\ \A a \in -MaxAng..MaxAng :
                       DDCall(cfg, [xyt_err EXCEPT !.ang = a]).w_cmd = dd_ret.w_cmd
        /\ ~far => IsZero(dd_ret.v_cmd)

C10_Witness ==
  /\ dd_pc = "returned" /\ ~dd_ret.done
  /\ Norm(xyt_err) > cfg.lin_error_tol /\ Abs(xyt_err.ang) > cfg.ang_error_tol
  /\ Sign(xyt_err.ang) # Sign(Arctan2(xyt_err))
  /\ ~IsZero(dd_ret.w_cmd) /\ ~IsZero(dd_ret.v_cmd)

====
